---- MODULE Spec2Model ----
(***************************************************************************)
(* The safe arithmetic evaluator of src/cal.py: eval_expr(expr, mode,      *)
(* precision) parses the text with ast.parse, walks the tree with _eval    *)
(* and computes under one of three numeric representations.                *)
(*                                                                         *)
(* Numbers.  A value is a record [tag, num, den, sig]:                     *)
(*   tag  the Python type of the object ("float", "Decimal", "Fraction",   *)
(*        "int", "complex"; "bool" only for raw literals);                 *)
(*   num/den  the number it stands for, as a reduced rational; a Decimal   *)
(*        Infinity has den = 0;                                            *)
(*   sig  0 when num/den is the stored number exactly, otherwise the       *)
(*        number of significant digits the stored number was rounded to    *)
(*        (the precision of the decimal context that rounded it, or the    *)
(*        17 digits of a double).  The rounding error itself is not        *)
(*        carried: num/den stays the unrounded number.                     *)
(* Results of math.sin, math.log, ... and of powers with a non-integral    *)
(* exponent are taken from tables over the operands the bounded inputs     *)
(* reach; an operand outside the tables stops the evaluation of the model  *)
(* (a CASE without a matching arm) instead of yielding an invented value.  *)
(***************************************************************************)
EXTENDS Integers, Sequences, FiniteSets, TLC

VARIABLES
    pc,               \* "idle" | "returned": position of the caller
    universe,         \* which bounded input set the caller draws from
    expr,             \* the source text handed to eval_expr
    mode,             \* the mode argument
    precision,        \* the precision argument (None or an integer)
    outcome,          \* what the call produced: a value or a raised exception
    log,              \* the nodes visited and callables applied, in order
    getcontext_prec,  \* prec of the process-wide decimal context, getcontext()
    hist,             \* the calls made so far (bounded by MaxCalls)
    registry,         \* the keys of the module-level tables OPS, _MATH_FUNCS, _CONSTS
    thread,           \* per thread: the eval_expr call it is in, and how far
    context           \* per thread: prec and flags of its getcontext()

vars == <<pc, universe, expr, mode, precision, outcome, log, getcontext_prec, hist,
          registry, thread, context>>

----------------------------------------------------------------------------
(* Bounds of the model *)

MaxArgs == 2          \* most positional arguments of a generated call
MaxCalls == 3         \* most calls recorded in hist
NumThreads == 2       \* threads that call eval_expr concurrently

(* Program constants *)

DefaultPrecision == 28   \* src/cal.py line 88: precision = 28
ContextPrec == 28        \* prec of decimal's default context (getcontext())
FloatDigits == 17        \* most digits of repr(float), src/cal.py line 56

\* the precision argument: None, or Prec(n) for the integer n
None == [given |-> FALSE, n |-> 0]

Prec(n) == [given |-> TRUE, n |-> n]

----------------------------------------------------------------------------
(* Rational arithmetic on the carriers *)

Abs(x) == IF x < 0 THEN -x ELSE x

Min2(a, b) == IF a <= b THEN a ELSE b

Max2(a, b) == IF a >= b THEN a ELSE b

RECURSIVE GCD(_, _)
GCD(a, b) == IF b = 0 THEN a ELSE GCD(b, a % b)

RECURSIVE IntPow(_, _)
IntPow(b, n) == IF n = 0 THEN 1 ELSE b * IntPow(b, n - 1)

\* n/d divided through by g, the sign carried by the numerator
Reduced(n, d, g) ==
    IF d < 0 THEN [num |-> -(n \div g), den |-> -(d \div g)]
    ELSE [num |-> n \div g, den |-> d \div g]

\* the reduced rational n/d, d # 0
Q(n, d) == Reduced(n, d, GCD(Abs(n), Abs(d)))

QAdd(a, b) == Q(a.num * b.den + b.num * a.den, a.den * b.den)
QSub(a, b) == Q(a.num * b.den - b.num * a.den, a.den * b.den)
QMul(a, b) == Q(a.num * b.num, a.den * b.den)
QDiv(a, b) == Q(a.num * b.den, a.den * b.num)
QNeg(a) == [num |-> -a.num, den |-> a.den]
QLess(a, b) == a.num * b.den < b.num * a.den
QFloor(a) == a.num \div a.den
QTrunc(a) == IF a.num >= 0 THEN a.num \div a.den ELSE -((-a.num) \div a.den)
QIsInt(a) == a.den = 1
\* a ** n for an integer n (a # 0 when n < 0)
QPowInt(a, n) ==
    IF n >= 0 THEN Q(IntPow(a.num, n), IntPow(a.den, n))
    ELSE Q(IntPow(a.den, -n), IntPow(a.num, -n))

RECURSIVE StripFactor(_, _)
StripFactor(d, p) == IF d % p = 0 THEN StripFactor(d \div p, p) ELSE d

RECURSIVE CountFactor(_, _)
CountFactor(d, p) == IF d % p = 0 THEN 1 + CountFactor(d \div p, p) ELSE 0

\* a double holds n/d exactly (for the small numbers of the model) iff d is a power of two
IsDyadic(d) == StripFactor(d, 2) = 1

\* n/d has a finite decimal expansion
Terminating(d) == StripFactor(StripFactor(d, 2), 5) = 1

RECURSIVE NumDigits(_)
NumDigits(n) == IF n < 10 THEN 1 ELSE 1 + NumDigits(n \div 10)

\* digits of the decimal coefficient of a terminating n/d
CoeffDigits(a) ==
    LET k == Max2(CountFactor(a.den, 2), CountFactor(a.den, 5))
    IN  NumDigits((Abs(a.num) * IntPow(10, k)) \div a.den)

----------------------------------------------------------------------------
(* Values and outcomes *)

V(tag, q, sig) == [tag |-> tag, num |-> q.num, den |-> q.den, sig |-> sig]

Car(v) == [num |-> v.num, den |-> v.den]

NoValue == [tag |-> "none", num |-> 0, den |-> 1, sig |-> 0]

Complex == [tag |-> "complex", num |-> 0, den |-> 1, sig |-> 0]

Infinity == [tag |-> "Decimal", num |-> 1, den |-> 0, sig |-> 0]

IsZero(v) == v.num = 0 /\ v.den # 0

\* an operation returned v
Ret(v) == [ok |-> TRUE, v |-> v, exc |-> "", msg |-> ""]

\* an operation raised exception class exc with text msg
Raise(exc, msg) == [ok |-> FALSE, v |-> NoValue, exc |-> exc, msg |-> msg]

\* isinstance(exception, ZeroDivisionError): decimal.DivisionByZero is a subclass
IsZeroDivisionError(exc) == exc \in {"ZeroDivisionError", "DivisionByZero"}

\* number of significant digits of a stored Decimal
Digits(v) == IF v.sig > 0 THEN v.sig ELSE CoeffDigits(Car(v))

----------------------------------------------------------------------------
(* The math module on doubles.  Results that are not exact are given to two *)
(* decimals; the tables cover the operands 1/2, 1, 2, 3, 4 and pi.          *)

PI == Q(157, 50)

E == Q(68, 25)

H(n) == Q(n, 100)

\* the magnitude of math.sin(math.pi) = 1.2246467991473532e-16: small, not zero
Tiny == Q(1, 1000000)

\* a double for the number q; it is inexact when the caller says so or q is not dyadic
F(q, inexact) == V("float", q, IF inexact \/ ~IsDyadic(q.den) THEN FloatDigits ELSE 0)

SinTab(q) ==
    CASE q = Q(1, 2) -> H(48) [] q = Q(1, 1) -> H(84) [] q = Q(2, 1) -> H(91)
      [] q = Q(3, 1) -> H(14) [] q = Q(4, 1) -> H(-76) [] q = PI -> Tiny

CosTab(q) ==
    CASE q = Q(1, 2) -> H(88) [] q = Q(1, 1) -> H(54) [] q = Q(2, 1) -> H(-42)
      [] q = Q(3, 1) -> H(-99) [] q = Q(4, 1) -> H(-65) [] q = PI -> Q(-1, 1)

TanTab(q) ==
    CASE q = Q(1, 2) -> H(55) [] q = Q(1, 1) -> H(156) [] q = Q(2, 1) -> H(-219)
      [] q = Q(3, 1) -> H(-14) [] q = Q(4, 1) -> H(116) [] q = PI -> QNeg(Tiny)

LogTab(q) ==
    CASE q = Q(1, 2) -> H(-69) [] q = Q(1, 1) -> Q(0, 1) [] q = Q(2, 1) -> H(69)
      [] q = Q(3, 1) -> H(110) [] q = Q(4, 1) -> H(139) [] q = PI -> H(114)

SqrtTab(q) ==
    CASE q = Q(1, 4) -> Q(1, 2) [] q = Q(1, 2) -> H(71) [] q = Q(1, 1) -> Q(1, 1)
      [] q = Q(2, 1) -> H(141) [] q = Q(3, 1) -> H(173) [] q = Q(4, 1) -> Q(2, 1)
      [] q = PI -> H(177)

PiPowTab(q) ==
    CASE q = Q(1, 2) -> H(11) [] q = Q(1, 1) -> Q(1, 1) [] q = Q(2, 1) -> H(882)
      [] q = Q(3, 1) -> H(3154) [] q = Q(4, 1) -> H(7788) [] q = PI -> H(3646)

\* x ** y for x > 0 and a non-integral y
PowTab(x, y) == CASE y = Q(1, 2) -> SqrtTab(x) [] y = PI -> PiPowTab(x)

\* the table entry is the exact result (a perfect square, sin(0), cos(pi), ...)
ExactEntry(q) == QIsInt(q) \/ q = Q(1, 2)

math_sin(x) ==
    LET q == Car(x)
        r == IF q.num = 0 THEN Q(0, 1)
             ELSE IF q.num < 0 THEN QNeg(SinTab(QNeg(q))) ELSE SinTab(q)
    IN  Ret(F(r, q.num # 0))

math_cos(x) ==
    LET q == Car(x)
        r == IF q.num = 0 THEN Q(1, 1)
             ELSE IF q.num < 0 THEN CosTab(QNeg(q)) ELSE CosTab(q)
    IN  Ret(F(r, ~QIsInt(r)))

math_tan(x) ==
    LET q == Car(x)
        r == IF q.num = 0 THEN Q(0, 1)
             ELSE IF q.num < 0 THEN QNeg(TanTab(QNeg(q))) ELSE TanTab(q)
    IN  Ret(F(r, q.num # 0))

\* math.log(x): the natural logarithm
math_log(x) ==
    IF x.num <= 0 THEN Raise("ValueError", "math domain error")
    ELSE LET r == LogTab(Car(x)) IN Ret(F(r, r.num # 0))

\* math.log(x, base) = log(x) / log(base)
math_log2(x, base) ==
    IF x.num <= 0 \/ base.num <= 0 THEN Raise("ValueError", "math domain error")
    ELSE LET n == LogTab(Car(x))
             d == LogTab(Car(base))
         IN  IF d.num = 0 THEN Raise("ZeroDivisionError", "float division by zero")
             ELSE Ret(F(QDiv(n, d), n.num # 0))

math_sqrt(x) ==
    IF x.num < 0 THEN Raise("ValueError", "math domain error")
    ELSE IF x.num = 0 THEN Ret(F(Q(0, 1), FALSE))
    ELSE LET r == SqrtTab(Car(x)) IN Ret(F(r, x.sig > 0 \/ ~ExactEntry(r)))

math_pow(x, y) ==
    LET a == Car(x)
        b == Car(y)
    IN  IF b.num = 0 \/ a = Q(1, 1) THEN Ret(F(Q(1, 1), FALSE))
        ELSE IF a.num = 0 THEN
            IF b.num < 0 THEN Raise("ValueError", "math domain error")
            ELSE Ret(F(Q(0, 1), FALSE))
        ELSE IF QIsInt(b) THEN Ret(F(QPowInt(a, b.num), x.sig > 0))
        ELSE IF a.num < 0 THEN Raise("ValueError", "math domain error")
        ELSE LET r == PowTab(a, b) IN Ret(F(r, TRUE))

----------------------------------------------------------------------------
(* The binary operators of Python's float, Decimal and Fraction *)

\* x ** y on doubles
float_pow(x, y) ==
    LET a == Car(x)
        b == Car(y)
        inex == x.sig > 0 \/ y.sig > 0
    IN  IF b.num = 0 THEN Ret(F(Q(1, 1), FALSE))
        ELSE IF a.num = 0 THEN
            IF b.num < 0
            THEN Raise("ZeroDivisionError", "0.0 cannot be raised to a negative power")
            ELSE Ret(F(Q(0, 1), FALSE))
        ELSE IF QIsInt(b) THEN Ret(F(QPowInt(a, b.num), inex))
        ELSE IF a.num < 0 THEN Ret(Complex)
        ELSE IF a = Q(1, 1) THEN Ret(F(Q(1, 1), FALSE))
        ELSE Ret(F(PowTab(a, b), TRUE))

float_binop(op, x, y) ==
    LET a == Car(x)
        b == Car(y)
        inex == x.sig > 0 \/ y.sig > 0
    IN  CASE op = "Add" -> Ret(F(QAdd(a, b), inex))
          [] op = "Sub" -> Ret(F(QSub(a, b), inex))
          [] op = "Mult" -> Ret(F(QMul(a, b), inex))
          [] op = "Div" ->
                IF b.num = 0 THEN Raise("ZeroDivisionError", "float division by zero")
                ELSE Ret(F(QDiv(a, b), inex))
          [] op = "FloorDiv" ->
                IF b.num = 0 THEN Raise("ZeroDivisionError", "float floor division by zero")
                ELSE Ret(F(Q(QFloor(QDiv(a, b)), 1), FALSE))
          [] op = "Mod" ->
                IF b.num = 0 THEN Raise("ZeroDivisionError", "float modulo")
                ELSE Ret(F(QSub(a, QMul(b, Q(QFloor(QDiv(a, b)), 1))), inex))
          [] op = "Pow" -> float_pow(x, y)

\* the Decimal for q as a context of precision prec stores it; long says an
\* operand was already a rounded number
DecRound(q, prec, long) ==
    IF ~long /\ Terminating(q.den) /\ CoeffDigits(q) <= prec
    THEN V("Decimal", q, 0)
    ELSE V("Decimal", q, prec)

\* Decimal / Decimal under the context precision prec (finite operands)
Decimal_truediv(x, y, prec) ==
    IF y.num = 0 THEN
        IF x.num = 0
        THEN Raise("InvalidOperation", "[<class 'decimal.DivisionUndefined'>]")
        ELSE Raise("DivisionByZero", "[<class 'decimal.DivisionByZero'>]")
    ELSE Ret(DecRound(QDiv(Car(x), Car(y)), prec, x.sig > 0 \/ y.sig > 0))

\* Decimal op Decimal under the context precision prec (finite operands)
Decimal_binop(op, x, y, prec) ==
    LET a == Car(x)
        b == Car(y)
        long == x.sig > 0 \/ y.sig > 0
    IN  CASE op = "Add" -> Ret(DecRound(QAdd(a, b), prec, long))
          [] op = "Sub" -> Ret(DecRound(QSub(a, b), prec, long))
          [] op = "Mult" -> Ret(DecRound(QMul(a, b), prec, long))
          [] op = "Div" -> Decimal_truediv(x, y, prec)
          [] op = "FloorDiv" ->
                IF b.num = 0 THEN
                    IF a.num = 0
                    THEN Raise("InvalidOperation", "[<class 'decimal.DivisionUndefined'>]")
                    ELSE Raise("DivisionByZero", "[<class 'decimal.DivisionByZero'>]")
                ELSE Ret(V("Decimal", Q(QTrunc(QDiv(a, b)), 1), 0))
          [] op = "Mod" ->
                IF b.num = 0 THEN
                    IF a.num = 0
                    THEN Raise("InvalidOperation", "[<class 'decimal.DivisionUndefined'>]")
                    ELSE Raise("InvalidOperation", "[<class 'decimal.InvalidOperation'>]")
                ELSE Ret(DecRound(QSub(a, QMul(b, Q(QTrunc(QDiv(a, b)), 1))), prec, long))
          [] op = "Pow" ->
                IF a.num = 0 /\ b.num = 0
                THEN Raise("InvalidOperation", "[<class 'decimal.InvalidOperation'>]")
                ELSE IF b.num = 0 THEN Ret(V("Decimal", Q(1, 1), 0))
                ELSE IF a.num = 0 THEN
                    IF b.num < 0 THEN Ret(Infinity) ELSE Ret(V("Decimal", Q(0, 1), 0))
                ELSE IF QIsInt(b) THEN Ret(DecRound(QPowInt(a, b.num), prec, long))
                ELSE IF a.num < 0
                THEN Raise("InvalidOperation", "[<class 'decimal.InvalidOperation'>]")
                ELSE IF a = Q(1, 1) THEN Ret(V("Decimal", Q(1, 1), prec))
                ELSE Ret(V("Decimal", PowTab(a, b), prec))

\* Fraction op Fraction: exact; // gives an int, ** with a non-integral
\* exponent gives float(a) ** float(b)
Fraction_binop(op, x, y) ==
    LET a == Car(x)
        b == Car(y)
        s == Max2(x.sig, y.sig)
    IN  CASE op = "Add" -> Ret(V("Fraction", QAdd(a, b), s))
          [] op = "Sub" -> Ret(V("Fraction", QSub(a, b), s))
          [] op = "Mult" -> Ret(V("Fraction", QMul(a, b), s))
          [] op = "Div" ->
                IF b.num = 0 THEN Raise("ZeroDivisionError", "Fraction(n, 0)")
                ELSE Ret(V("Fraction", QDiv(a, b), s))
          [] op = "FloorDiv" ->
                IF b.num = 0
                THEN Raise("ZeroDivisionError", "integer division or modulo by zero")
                ELSE Ret(V("int", Q(QFloor(QDiv(a, b)), 1), 0))
          [] op = "Mod" ->
                IF b.num = 0 THEN Raise("ZeroDivisionError", "integer modulo by zero")
                ELSE Ret(V("Fraction", QSub(a, QMul(b, Q(QFloor(QDiv(a, b)), 1))), s))
          [] op = "Pow" ->
                IF QIsInt(b) THEN
                    IF b.num < 0 /\ a.num = 0
                    THEN Raise("ZeroDivisionError", "Fraction(1, 0)")
                    ELSE Ret(V("Fraction", QPowInt(a, b.num), s))
                ELSE float_pow(F(a, x.sig > 0), F(b, y.sig > 0))

\* float(v) for a real number v
to_float(v) ==
    CASE v.tag = "float" -> v
      [] v.tag \in {"int", "bool"} -> F(Car(v), FALSE)
      [] v.tag = "Fraction" -> F(Car(v), v.sig > 0)
      [] v.tag = "Decimal" /\ v.den # 0 -> F(Car(v), v.sig > 0)

\* complex op real: + - * / ** stay complex, // and % are not defined
complex_binop(op, right) ==
    CASE op \in {"Add", "Sub", "Mult", "Pow"} -> Ret(Complex)
      [] op = "Div" ->
            IF IsZero(right) THEN Raise("ZeroDivisionError", "complex division by zero")
            ELSE Ret(Complex)
      [] op \in {"FloorDiv", "Mod"} ->
            Raise("TypeError", "unsupported operand type(s): 'complex'")

\* OPS[op](left, right) for a binary operator: Python dispatches on the operand
\* types; Decimal arithmetic rounds under the process-wide context; a float
\* with a Fraction computes in floats
OPS_binary(op, left, right, gprec) ==
    CASE left.tag = "float" /\ right.tag \in {"float", "Fraction"} ->
            float_binop(op, left, to_float(right))
      [] left.tag = "complex" /\ right.tag \in {"float", "Fraction"} ->
            complex_binop(op, right)
      [] left.tag = "Decimal" /\ right.tag = "Decimal" /\ left.den # 0 /\ right.den # 0 ->
            Decimal_binop(op, left, right, gprec)
      [] left.tag = "Fraction" /\ right.tag = "Fraction" -> Fraction_binop(op, left, right)

\* OPS[op](val) for a unary operator: operator.neg, or the identity lambda
OPS_unary(op, val, gprec) ==
    IF op = "UAdd" THEN Ret(val)
    ELSE CASE val.tag = "float" -> Ret(V("float", QNeg(Car(val)), val.sig))
           [] val.tag = "Fraction" -> Ret(V("Fraction", QNeg(Car(val)), val.sig))
           [] val.tag = "Decimal" /\ val.den # 0 ->
                Ret(V("Decimal", QNeg(Car(val)),
                      IF val.sig > 0 THEN Min2(val.sig, gprec)
                      ELSE DecRound(Car(val), gprec, FALSE).sig))

----------------------------------------------------------------------------
(* The registries and the conversions of src/cal.py *)

\* the operator classes that are keys of OPS
OPS == {"Add", "Sub", "Mult", "Div", "FloorDiv", "Mod", "Pow", "USub", "UAdd"}

\* the names that are keys of _MATH_FUNCS
_MATH_FUNCS == {"sin", "cos", "tan", "log", "ln", "sqrt", "abs", "max", "min", "pow"}

\* _CONSTS[name]: math.pi and math.e, two doubles
_CONSTS(name) == CASE name = "pi" -> F(PI, TRUE) [] name = "e" -> F(E, TRUE)

\* Fraction(v) for a real number v
to_Fraction(v) ==
    CASE v.tag \in {"int", "bool"} -> Ret(V("Fraction", Car(v), 0))
      [] v.tag = "float" -> Ret(V("Fraction", Car(v), v.sig))
      [] v.tag = "complex" ->
            Raise("TypeError", "argument should be a string or a Rational instance")

\* _to_decimal(value, ctx): ctx is accepted and not used; the division of a
\* Fraction runs under the process-wide context
_to_decimal(value, ctx, gprec) ==
    CASE value.tag = "Decimal" -> Ret(value)
      [] value.tag = "Fraction" ->
            Decimal_truediv(V("Decimal", Q(value.num, 1), 0),
                            V("Decimal", Q(value.den, 1), 0), gprec)
      [] value.tag = "float" ->
            Ret(V("Decimal", Car(value), IF value.sig > 0 THEN FloatDigits ELSE 0))
      [] value.tag = "bool" ->
            Raise("InvalidOperation", "[<class 'decimal.ConversionSyntax'>]")
      [] value.tag = "int" -> Ret(V("Decimal", Car(value), 0))

\* _to_fraction(value): a Decimal is rebuilt from its digits and exponent
_to_fraction(value) ==
    CASE value.tag = "Fraction" -> Ret(value)
      [] value.tag = "Decimal" /\ value.den # 0 -> Ret(V("Fraction", Car(value), value.sig))
      [] value.tag \in {"int", "bool", "float", "complex"} -> to_Fraction(value)

\* convert_number(n): a literal in the representation of the mode
convert_number(n, mode_, ctx, gprec) ==
    IF mode_ = "float" THEN Ret(to_float(n))
    ELSE IF mode_ = "fraction" THEN to_Fraction(n)
    ELSE _to_decimal(n, ctx, gprec)

\* convert_const(name)
convert_const(name, mode_, ctx, gprec) ==
    IF name \notin {"pi", "e"} THEN Raise("EvalError", "Unbekannter Name: " \o name)
    ELSE IF mode_ = "float" THEN Ret(to_float(_CONSTS(name)))
    ELSE IF mode_ = "fraction" THEN to_Fraction(_CONSTS(name))
    ELSE _to_decimal(_CONSTS(name), ctx, gprec)

\* max(...) and min(...) of Python: the first of the largest (smallest) elements
PyMax(args) ==
    LET i == CHOOSE i \in 1..Len(args) :
                /\ \A j \in 1..Len(args) : ~QLess(Car(args[i]), Car(args[j]))
                /\ \A j \in 1..(i - 1) : QLess(Car(args[j]), Car(args[i]))
    IN  args[i]

PyMin(args) ==
    LET i == CHOOSE i \in 1..Len(args) :
                /\ \A j \in 1..Len(args) : ~QLess(Car(args[j]), Car(args[i]))
                /\ \A j \in 1..(i - 1) : QLess(Car(args[i]), Car(args[j]))
    IN  args[i]

PyAbs(v) == [v EXCEPT !.num = Abs(v.num)]

\* the first exception of a sequence of operation results, or Ret(NoValue)
RECURSIVE FirstRaise(_)
FirstRaise(rs) ==
    IF rs = <<>> THEN Ret(NoValue)
    ELSE IF ~Head(rs).ok THEN Head(rs) ELSE FirstRaise(Tail(rs))

\* ctx.sqrt(x): the correctly rounded square root under the precision of ctx
ctx_sqrt(x, ctx) ==
    IF x.num < 0 THEN Raise("InvalidOperation", "[<class 'decimal.InvalidOperation'>]")
    ELSE IF x.num = 0 THEN Ret(V("Decimal", Q(0, 1), 0))
    ELSE LET r == SqrtTab(Car(x))
         IN  Ret(DecRound(r, ctx, x.sig > 0 \/ ~ExactEntry(r)))

\* func(*args) for a function of the math module or a builtin, on floats
host_call(name, args) ==
    CASE name \in {"sin", "cos", "tan", "sqrt"} ->
            IF Len(args) # 1
            THEN Raise("TypeError", "math." \o name \o "() takes exactly one argument")
            ELSE (CASE name = "sin" -> math_sin(args[1])
                    [] name = "cos" -> math_cos(args[1])
                    [] name = "tan" -> math_tan(args[1])
                    [] name = "sqrt" -> math_sqrt(args[1]))
      [] name = "log" ->
            IF Len(args) = 1 THEN math_log(args[1])
            ELSE IF Len(args) = 2 THEN math_log2(args[1], args[2])
            ELSE Raise("TypeError", "math.log requires 1 to 2 arguments")
      [] name = "ln" ->
            IF Len(args) # 1 THEN Raise("TypeError", "<lambda>() takes 1 positional argument")
            ELSE math_log(args[1])
      [] name = "pow" ->
            IF Len(args) # 2 THEN Raise("TypeError", "pow expected 2 arguments")
            ELSE math_pow(args[1], args[2])
      [] name = "abs" ->
            IF Len(args) # 1 THEN Raise("TypeError", "abs() takes exactly one argument")
            ELSE Ret(PyAbs(args[1]))
      [] name = "max" ->
            IF Len(args) = 0 THEN Raise("TypeError", "max expected at least 1 argument, got 0")
            ELSE IF Len(args) = 1 THEN Raise("TypeError", "'float' object is not iterable")
            ELSE Ret(PyMax(args))
      [] name = "min" ->
            IF Len(args) = 0 THEN Raise("TypeError", "min expected at least 1 argument, got 0")
            ELSE IF Len(args) = 1 THEN Raise("TypeError", "'float' object is not iterable")
            ELSE Ret(PyMin(args))

\* then(r, f): r when it raised, otherwise the decimal of the float it returned
float_to_decimal(r, ctx, gprec) == IF r.ok THEN _to_decimal(r.v, ctx, gprec) ELSE r

IndexError == Raise("IndexError", "tuple index out of range")

\* fraction-mode wrapper without the test of the exponent's denominator
wrapper_fraction_anyExponent(name, args) ==
    LET fr == [i \in 1..Len(args) |-> _to_fraction(args[i])]
    IN  IF name = "pow" /\ Len(args) = 2 /\ fr[1].ok /\ fr[2].ok
        THEN Fraction_binop("Pow", fr[1].v, fr[2].v)
        ELSE IF name = "abs" /\ Len(args) > 0 /\ fr[1].ok THEN Ret(PyAbs(fr[1].v))
        ELSE Raise("EvalError", "Funktion " \o name \o " nicht im Fraction-Modus unterstuetzt")

\* wrapper(*args) of make_function(name), fraction mode
wrapper_fraction(name, args) ==
    LET fr == [i \in 1..Len(args) |-> _to_fraction(args[i])]
        bad == FirstRaise(fr)
        vals == [i \in 1..Len(args) |-> fr[i].v]
    IN  CASE name = "abs" ->
                IF Len(args) = 0 THEN IndexError
                ELSE IF ~fr[1].ok THEN fr[1] ELSE Ret(PyAbs(fr[1].v))
          [] name = "max" ->
                IF ~bad.ok THEN bad
                ELSE IF Len(args) = 0 THEN Raise("ValueError", "max() arg is an empty sequence")
                ELSE Ret(PyMax(vals))
          [] name = "min" ->
                IF ~bad.ok THEN bad
                ELSE IF Len(args) = 0 THEN Raise("ValueError", "min() arg is an empty sequence")
                ELSE Ret(PyMin(vals))
          [] name = "pow" ->
                IF Len(args) < 2
                THEN IF ~bad.ok THEN bad
                     ELSE Raise("ValueError", "not enough values to unpack (expected 2)")
                ELSE IF ~fr[1].ok THEN fr[1]
                ELSE IF ~fr[2].ok THEN fr[2]
                ELSE IF Len(args) > 2
                THEN Raise("ValueError", "too many values to unpack (expected 2)")
                ELSE IF fr[2].v.den # 1
                THEN Raise("EvalError",
                           "pow mit nicht-ganzzahligem Exponenten im Fraction-Modus nicht erlaubt")
                ELSE Fraction_binop("Pow", fr[1].v, fr[2].v)
          [] OTHER ->
                Raise("EvalError", "Funktion " \o name \o " nicht im Fraction-Modus unterstuetzt")

\* the arguments the decimal-mode wrapper hands to the function of the math
\* module: float(args[0]) alone for the one-argument functions, else every
\* argument as a float
decimal_call_args(name, args) ==
    IF name \in {"sqrt", "log", "ln", "sin", "cos", "tan"}
    THEN <<to_float(args[1])>>
    ELSE [i \in 1..Len(args) |-> to_float(args[i])]

\* wrapper(*args) of make_function(name), decimal mode: ctx.sqrt, a ** int(b)
\* and max(args) compute on Decimals, everything else computes on floats and
\* converts the float result
wrapper_decimal(name, args, ctx, gprec) ==
    IF name \in {"sqrt", "log", "ln", "sin", "cos", "tan"} /\ Len(args) = 0
    THEN IndexError
    ELSE IF name = "sqrt" /\ ctx_sqrt(args[1], ctx).ok THEN ctx_sqrt(args[1], ctx)
    ELSE IF name = "pow" /\ Len(args) < 2
    THEN Raise("ValueError", "not enough values to unpack (expected 2)")
    ELSE IF name = "pow" /\ Len(args) > 2
    THEN Raise("ValueError", "too many values to unpack (expected 2)")
    ELSE IF name = "pow" /\ args[2].tag = "Decimal" /\ args[2].den = 1
    THEN Decimal_binop("Pow", args[1], args[2], gprec)
    ELSE IF name \in {"max", "min"} THEN
        IF Len(args) = 0 THEN Raise("ValueError", "max() arg is an empty sequence")
        ELSE Ret(PyMax(args))
    ELSE float_to_decimal(host_call(name, decimal_call_args(name, args)), ctx, gprec)

\* wrapper(*args) of make_function(name), float mode
wrapper_float(name, args) ==
    host_call(name, IF name \in {"sin", "cos", "tan", "log", "ln", "sqrt", "pow"}
                    THEN [i \in 1..Len(args) |-> to_float(args[i])]
                    ELSE args)

\* wrapper(*args): the closure make_function(name) returns
wrapper(name, args, mode_, ctx, gprec) ==
    IF mode_ = "fraction" THEN wrapper_fraction(name, args)
    ELSE IF mode_ = "decimal" THEN wrapper_decimal(name, args, ctx, gprec)
    ELSE wrapper_float(name, args)

\* make_function(name): raises for a name that is not registered
make_function(name) ==
    IF name \notin _MATH_FUNCS THEN Raise("EvalError", "Unbekannte Funktion: " \o name)
    ELSE Ret(NoValue)

----------------------------------------------------------------------------
(* Syntax trees of the ast module.  A node is a record                     *)
(*   k     the node class (Constant, Name, BinOp, UnaryOp, Call, or another *)
(*         expression class such as Attribute, Subscript, List, Compare)    *)
(*   s     Constant: the type of node.value; Name: node.id; BinOp and       *)
(*         UnaryOp: the class of node.op                                    *)
(*   n, d  Constant: node.value as the number n/d                           *)
(*   f     Call: <<node.func>>                                              *)
(*   args  BinOp: <<left, right>>; UnaryOp: <<operand>>; Call: node.args    *)
(*   kws   Call: the values of node.keywords                                *)

Node(k, s_, n, d, f, args, kws) ==
    [k |-> k, s |-> s_, n |-> n, d |-> d, f |-> f, args |-> args, kws |-> kws]

Num(n) == Node("Constant", "int", n, 1, <<>>, <<>>, <<>>)
Flt(n, d) == Node("Constant", "float", n, d, <<>>, <<>>, <<>>)
Bool(b) == Node("Constant", "bool", b, 1, <<>>, <<>>, <<>>)
Str == Node("Constant", "str", 0, 1, <<>>, <<>>, <<>>)
Name(id) == Node("Name", id, 0, 1, <<>>, <<>>, <<>>)
BinOp(op, l, r) == Node("BinOp", op, 0, 1, <<>>, <<l, r>>, <<>>)
UnaryOp(op, x) == Node("UnaryOp", op, 0, 1, <<>>, <<x>>, <<>>)
Call(fn, args, kws) == Node("Call", "", 0, 1, <<fn>>, args, kws)
Other(k) == Node(k, "", 0, 1, <<>>, <<>>, <<>>)

\* node.value of a Constant as a raw Python number
Literal(node) == V(node.s, Q(node.n, node.d), 0)

\* events of the log
Visit(path, node) == [ev |-> "visit", at |-> path, what |-> node.k]
Apply(path, op) == [ev |-> "apply", at |-> path, what |-> op]
Invoke(path, name) == [ev |-> "invoke", at |-> path, what |-> name]

\* an operation result together with the log of the evaluation that produced it
Logged(r, lg) == [ok |-> r.ok, v |-> r.v, exc |-> r.exc, msg |-> r.msg, log |-> lg]

Result(z) == [ok |-> z.ok, v |-> z.v, exc |-> z.exc, msg |-> z.msg]

\* operands evaluated right to left
BinOp_operands_rightFirst(L, R) ==
    IF ~R.ok THEN Logged(Result(R), R.log)
    ELSE IF ~L.ok THEN Logged(Result(L), R.log \o L.log)
    ELSE Logged(Ret(NoValue), R.log \o L.log)

\* _eval, BinOp branch after the operator check: left and right are the
\* evaluations of node.left and node.right, made in this order
BinOp_operands(L, R) ==
    IF ~L.ok THEN Logged(Result(L), L.log)
    ELSE IF ~R.ok THEN Logged(Result(R), L.log \o R.log)
    ELSE Logged(Ret(NoValue), L.log \o R.log)

\* _eval, BinOp branch, lines 178-197: func[1] is func(left, right), l and r
\* are the coerced operands, func[2] is func(l, r)
BinOp_retry(op, path, mode_, l, r, func) ==
    IF func[1].ok \/ IsZeroDivisionError(func[1].exc)
    THEN Logged(func[1], <<Apply(path, op)>>)
    ELSE IF mode_ \in {"decimal", "fraction"} THEN
        IF ~l.ok THEN Logged(l, <<Apply(path, op)>>)
        ELSE IF ~r.ok THEN Logged(r, <<Apply(path, op)>>)
        ELSE IF func[2].ok THEN Logged(func[2], <<Apply(path, op), Apply(path, op)>>)
        ELSE Logged(Raise("EvalError", func[1].msg), <<Apply(path, op), Apply(path, op)>>)
    ELSE Logged(Raise("EvalError", func[1].msg), <<Apply(path, op)>>)

\* the coercion of an operand before the second application
BinOp_coerce(value, mode_, ctx, gprec) ==
    IF mode_ = "decimal" THEN _to_decimal(value, ctx, gprec) ELSE _to_fraction(value)

\* the two applications of func: on the operands as evaluated, and on the
\* coerced operands coerced[1] and coerced[2]
BinOp_second(op, path, mode_, gprec, left, right, coerced) ==
    BinOp_retry(op, path, mode_, coerced[1], coerced[2],
                [n \in 1..2 |-> OPS_binary(op, IF n = 1 THEN left ELSE coerced[1].v,
                                           IF n = 1 THEN right ELSE coerced[2].v, gprec)])

\* _eval, BinOp branch: func(left, right), and on a failure other than a
\* ZeroDivisionError one more application on the coerced operands
BinOp_apply(op, path, left, right, mode_, ctx, gprec) ==
    BinOp_second(op, path, mode_, gprec, left, right,
                 [n \in 1..2 |-> BinOp_coerce(IF n = 1 THEN left ELSE right,
                                              mode_, ctx, gprec)])

\* _eval, BinOp branch: the result of the node from the evaluation of its
\* operands (both) and the application of its operator (z)
BinOp_result(here, both, z) ==
    IF ~both.ok THEN Logged(Result(both), here \o both.log)
    ELSE Logged(Result(z), here \o both.log \o z.log)

\* _eval, BinOp branch after the operator check, lines 175-197: L and R are
\* the evaluations of node.left and node.right
BinOp_branch(node, path, L, R, mode_, ctx, gprec) ==
    BinOp_result(<<Visit(path, node)>>, BinOp_operands(L, R),
                 BinOp_apply(node.s, path, L.v, R.v, mode_, ctx, gprec))

\* Call branch that evaluates the arguments before it looks at the callee
Call_branch_argsFirst(node, path, A, mode_, ctx, gprec) ==
    IF ~A.ok THEN Logged(Result(A), A.log)
    ELSE IF node.f[1].k # "Name"
    THEN Logged(Raise("EvalError", "Nur einfache Funktionsaufrufe erlaubt"), A.log)
    ELSE IF ~make_function(node.f[1].s).ok
    THEN Logged(make_function(node.f[1].s), A.log)
    ELSE Logged(wrapper(node.f[1].s, A.vals, mode_, ctx, gprec),
                A.log \o <<Invoke(path, node.f[1].s)>>)

\* _eval, Call branch: the callee must be a bare name, the function must be
\* registered, then the arguments (A, evaluated left to right) and the call
Call_branch(node, path, A, mode_, ctx, gprec) ==
    IF node.f[1].k # "Name"
    THEN Logged(Raise("EvalError", "Nur einfache Funktionsaufrufe erlaubt"), <<>>)
    ELSE IF ~make_function(node.f[1].s).ok
    THEN Logged(make_function(node.f[1].s), <<>>)
    ELSE IF ~A.ok THEN Logged(Result(A), A.log)
    ELSE Logged(wrapper(node.f[1].s, A.vals, mode_, ctx, gprec),
                A.log \o <<Invoke(path, node.f[1].s)>>)

RECURSIVE _eval(_, _, _, _, _)
RECURSIVE eval_args(_, _, _, _, _, _)

\* tuple(_eval(a) for a in node.args): stops at the first argument that raises
eval_args(args, i, path, mode_, ctx, gprec) ==
    IF i > Len(args)
    THEN [ok |-> TRUE, v |-> NoValue, exc |-> "", msg |-> "", log |-> <<>>, vals |-> <<>>]
    ELSE LET a == _eval(args[i], path \o <<i>>, mode_, ctx, gprec)
         IN  IF ~a.ok
             THEN [ok |-> FALSE, v |-> NoValue, exc |-> a.exc, msg |-> a.msg,
                   log |-> a.log, vals |-> <<>>]
             ELSE LET rest == eval_args(args, i + 1, path, mode_, ctx, gprec)
                  IN  [rest EXCEPT !.log = a.log \o rest.log,
                                   !.vals = <<a.v>> \o rest.vals]

\* _eval(node); path is the position of node in the tree
_eval(node, path, mode_, ctx, gprec) ==
    LET here == <<Visit(path, node)>>
        after(z) == Logged(Result(z), here \o z.log)
    IN  IF node.k = "Constant" THEN
            IF node.s \in {"int", "float", "bool"}
            THEN Logged(convert_number(Literal(node), mode_, ctx, gprec), here)
            ELSE Logged(Raise("EvalError", "Nur Zahlen als Konstanten erlaubt"), here)
        ELSE IF node.k = "BinOp" THEN
            IF node.s \notin OPS
            THEN Logged(Raise("EvalError", "Nicht unterstuetzter Operator"), here)
            ELSE BinOp_branch(node, path,
                              _eval(node.args[1], path \o <<1>>, mode_, ctx, gprec),
                              _eval(node.args[2], path \o <<2>>, mode_, ctx, gprec),
                              mode_, ctx, gprec)
        ELSE IF node.k = "UnaryOp" THEN
            IF node.s \notin OPS
            THEN Logged(Raise("EvalError", "Nicht unterstuetzter Unary-Operator"), here)
            ELSE LET val == _eval(node.args[1], path \o <<1>>, mode_, ctx, gprec)
                 IN  IF ~val.ok THEN after(val)
                     ELSE Logged(OPS_unary(node.s, val.v, gprec),
                                 here \o val.log \o <<Apply(path, node.s)>>)
        ELSE IF node.k = "Call" THEN
            after(Call_branch(node, path, eval_args(node.args, 1, path, mode_, ctx, gprec),
                              mode_, ctx, gprec))
        ELSE IF node.k = "Name" THEN
            Logged(convert_const(node.s, mode_, ctx, gprec), here)
        ELSE Logged(Raise("EvalError", "Ungueltiger Ausdruck"), here)

\* ast.parse(expr, mode="eval"): a text that is not one expression is a SyntaxError
ast_parse(src) ==
    IF src.syntax = "expression" THEN Ret(NoValue)
    ELSE Raise("SyntaxError", "invalid syntax")

\* set-up that configures the process-wide context itself, and leaves its prec
\* alone when no precision is given
ctx_setup_shared(mode_, precision_, gprec) ==
    IF mode_ # "decimal" THEN [ok |-> TRUE, ctx |-> 0, glob |-> gprec]
    ELSE LET p == IF precision_ = None THEN gprec ELSE precision_.n
         IN  [ok |-> p >= 1, ctx |-> p, glob |-> IF p >= 1 THEN p ELSE gprec]

\* the context set-up of eval_expr: ctx is a copy of the process-wide context
\* with prec = int(precision); glob is what the process-wide context holds after
ctx_setup(mode_, precision_, gprec) ==
    IF mode_ # "decimal" THEN [ok |-> TRUE, ctx |-> 0, glob |-> gprec]
    ELSE LET p == IF precision_ = None THEN DefaultPrecision ELSE precision_.n
         IN  [ok |-> p >= 1, ctx |-> p, glob |-> gprec]

\* eval_expr(expr, mode, precision) in a process whose context has prec gprec
eval_expr_result(src, mode_, precision_, gprec) ==
    IF mode_ \notin {"float", "decimal", "fraction"}
    THEN Logged(Raise("EvalError", "Unbekannter Modus"), <<>>)
    ELSE IF ~ctx_setup(mode_, precision_, gprec).ok
    THEN Logged(Raise("ValueError", "valid range for prec is [1, MAX_PREC]"), <<>>)
    ELSE IF ~ast_parse(src).ok
    THEN Logged(Raise("EvalError", "Syntaxfehler"), <<>>)
    ELSE _eval(src.tree, <<>>, mode_, ctx_setup(mode_, precision_, gprec).ctx,
              ctx_setup(mode_, precision_, gprec).glob)

----------------------------------------------------------------------------
(* The signals of Decimal arithmetic.  An operator of OPS on two Decimals  *)
(* runs under getcontext() of the calling thread and raises that context's *)
(* sticky flags; ctx.sqrt raises the flags of the private copy ctx, which  *)
(* is dropped at return.  must holds the signals an operation raises for   *)
(* certain, may those it raises or not depending on digits the value       *)
(* abstraction does not carry (an operand that was itself rounded).        *)

Signals(must, may) == [must |-> must, may |-> may]

NoSignals == Signals({}, {})

\* the signals of an operation on the Decimals x and y whose outcome is r
result_signals(r, x, y) ==
    IF ~r.ok THEN Signals({r.exc}, {})
    ELSE IF r.v.den = 0 \/ r.v.sig = 0 THEN NoSignals
    ELSE IF x.sig > 0 \/ y.sig > 0 THEN Signals({}, {"Inexact", "Rounded"})
    ELSE Signals({"Inexact", "Rounded"}, {})

\* the signals of Decimal op Decimal under the context precision prec
Decimal_signals(op, x, y, prec) == result_signals(Decimal_binop(op, x, y, prec), x, y)

\* the signals of func(left, right) in the BinOp branch; the second
\* application on the coerced operands raises what the first one raised
BinOp_signals(op, left, right, mode_, gprec) ==
    IF /\ mode_ = "decimal"
       /\ left.tag = "Decimal" /\ right.tag = "Decimal"
       /\ left.den # 0 /\ right.den # 0
    THEN Decimal_signals(op, left, right, gprec)
    ELSE NoSignals

\* the signals of operator.neg on a Decimal: it rounds to the context precision
UnaryOp_signals(op, val, mode_, gprec) ==
    IF /\ mode_ = "decimal" /\ op = "USub" /\ val.tag = "Decimal" /\ val.den # 0
       /\ OPS_unary(op, val, gprec).v.sig # val.sig
    THEN Signals({"Inexact", "Rounded"}, {})
    ELSE NoSignals

\* the signals of wrapper(*args): only a ** int(b) of pow runs under getcontext()
wrapper_signals(name, args, mode_, gprec) ==
    IF /\ mode_ = "decimal" /\ name = "pow" /\ Len(args) = 2
       /\ args[2].tag = "Decimal" /\ args[2].den = 1
       /\ args[1].tag = "Decimal" /\ args[1].den # 0
    THEN Decimal_signals("Pow", args[1], args[2], gprec)
    ELSE NoSignals

RECURSIVE subtree(_, _)
\* the node at position path of the tree
subtree(node, path) ==
    IF path = <<>> THEN node ELSE subtree(node.args[Head(path)], Tail(path))

\* the signals of the operator or wrapper of node on the values vals
node_signals(node, vals, mode_, gprec) ==
    IF node.k = "BinOp" THEN BinOp_signals(node.s, vals[1], vals[2], mode_, gprec)
    ELSE IF node.k = "UnaryOp" THEN UnaryOp_signals(node.s, vals[1], mode_, gprec)
    ELSE wrapper_signals(node.f[1].s, vals, mode_, gprec)

RECURSIVE Paths(_)
\* the positions of the nodes _eval can reach: operands and positional arguments
Paths(node) ==
    {<<>>} \cup UNION {{<<i>> \o q : q \in Paths(node.args[i])} : i \in 1..Len(node.args)}

\* _eval at every position of the tree; the evaluation of the tree is at <<>>
Evaluations(tree, mode_, ctx, gprec) ==
    [p \in Paths(tree) |-> _eval(subtree(tree, p), p, mode_, ctx, gprec)]

\* the values of the operands or arguments of the node at position path
operand_values(node, path, evals) ==
    [i \in 1..Len(node.args) |-> evals[path \o <<i>>].v]

\* the signals of the operation an apply or invoke event of the log stands for
event_signals(tree, event, mode_, gprec, evals) ==
    node_signals(subtree(tree, event.at),
                 operand_values(subtree(tree, event.at), event.at, evals),
                 mode_, gprec)

\* all the signals of the set raised
Merge(raised) == Signals(UNION {s.must : s \in raised}, UNION {s.may : s \in raised})

\* the signals an evaluation raises in getcontext(): those of the operations
\* its log lg records
_eval_signals(tree, lg, mode_, gprec, evals) ==
    Merge({event_signals(tree, lg[k], mode_, gprec, evals) :
              k \in {n \in 1..Len(lg) : lg[n].ev \in {"apply", "invoke"}}})

----------------------------------------------------------------------------
(* The bounded inputs *)

Text(tree) == [syntax |-> "expression", tree |-> tree]

\* "x = 1": an assignment is not an expression
Assignment == [syntax |-> "statement", tree |-> Other("Assign")]

\* "1 +"
Malformed == [syntax |-> "malformed", tree |-> Other("none")]

NoText == [syntax |-> "none", tree |-> Other("none")]

Neg1 == UnaryOp("USub", Num(1))

DivZero == BinOp("Div", Num(1), Num(0))

UnknownCall == Call(Name("foo"), <<Num(1)>>, <<>>)

NoArgCall == Call(Name("sin"), <<>>, <<>>)

Atoms ==
    {Num(0), Num(1), Num(2), Num(3), Flt(1, 2), Name("pi"), Name("x"), Bool(1), Str,
     Other("Attribute")}

Operands == Atoms \cup {Neg1, DivZero, UnknownCall, NoArgCall}

CallArgs ==
    {Num(0), Num(1), Num(2), Num(3), Flt(1, 2), Name("pi"), Name("x"), Bool(1), Neg1, DivZero}

BinOpClasses == {"Add", "Sub", "Mult", "Div", "FloorDiv", "Mod", "Pow", "LShift"}

UnaryOpClasses == {"USub", "UAdd", "Invert", "Not"}

Callees == {Name(f) : f \in _MATH_FUNCS \cup {"foo"}} \cup {Other("Attribute")}

\* the sequences over S of length at most n
RECURSIVE SeqsUpTo(_, _)
SeqsUpTo(S, n) ==
    IF n = 0 THEN {<<>>}
    ELSE LET shorter == SeqsUpTo(S, n - 1)
         IN  shorter \cup {Append(q, x) : q \in {t \in shorter : Len(t) = n - 1}, x \in S}

KeywordCalls ==
    {Call(Name(f), a, <<kw>>) :
        f \in {"max", "sin", "foo"}, a \in SeqsUpTo({Num(1), Num(2)}, 2),
        kw \in {Str, Num(1), DivZero, Other("Attribute")}}

\* an operator applied to the result of another one: a complex or a float
\* where the mode has Fractions, a rounded Decimal
NestedTrees ==
    {BinOp(op, inner, a) :
        op \in {"Add", "Div", "FloorDiv", "Mod", "Pow"},
        inner \in {BinOp("Pow", Neg1, Flt(1, 2)), BinOp("Pow", Num(2), Flt(1, 2))},
        a \in {Num(0), Num(2)}}

Trees ==
    Atoms
    \cup NestedTrees
    \cup {Name("e"), Other("Subscript"), Other("List"), Other("Compare"), Other("BoolOp")}
    \cup {BinOp(op, l, r) : op \in BinOpClasses, l \in Operands, r \in Operands}
    \cup {UnaryOp(op, x) : op \in UnaryOpClasses, x \in Operands}
    \cup {Call(fn, a, <<>>) : fn \in Callees, a \in SeqsUpTo(CallArgs, MaxArgs)}
    \cup KeywordCalls

Settings ==
    {[mode |-> "float", precision |-> None], [mode |-> "fraction", precision |-> None],
     [mode |-> "decimal", precision |-> None], [mode |-> "decimal", precision |-> Prec(5)]}

\* calls outside the documented argument ranges
OddCalls ==
    {[src |-> t, mode |-> m, precision |-> p] :
        t \in {Text(DivZero), Malformed}, m \in {"hex", "decimal", "float"},
        p \in {Prec(0), Prec(3)}}

FullInputs ==
    {[src |-> Text(t), mode |-> c.mode, precision |-> c.precision] : t \in Trees, c \in Settings}
    \cup {[src |-> t, mode |-> c.mode, precision |-> c.precision] :
            t \in {Assignment, Malformed}, c \in Settings}
    \cup OddCalls

ProbeTrees ==
    {BinOp("Div", Num(1), Num(3)), DivZero, Name("x"),
     Call(Name("sqrt"), <<Num(2)>>, <<>>)}

ProbeInputs ==
    {[src |-> Text(t), mode |-> c.mode, precision |-> c.precision] :
        t \in ProbeTrees, c \in Settings}

Inputs(u) == IF u = "probe" THEN ProbeInputs ELSE FullInputs

----------------------------------------------------------------------------
(* The state machine: a caller that calls eval_expr and discards the result *)

NoOutcome == [ok |-> FALSE, v |-> NoValue, exc |-> "", msg |-> ""]

\* the module-level tables as the import of cal.py builds them
Registry == [OPS |-> OPS, _MATH_FUNCS |-> _MATH_FUNCS, _CONSTS |-> {"pi", "e"}]

Threads == 1..NumThreads

\* getcontext() of a thread that has not touched it: decimal's default context
DefaultContext == [prec |-> ContextPrec, flags |-> {}]

\* a thread outside eval_expr
NotCalling ==
    [pc |-> "idle", src |-> NoText, mode |-> "", precision |-> None, ctx |-> 0,
     outcome |-> NoOutcome, overlap |-> FALSE]

\* what the threads call eval_expr with
ThreadInputs ==
    {[src |-> Text(BinOp("Div", Num(1), Num(3))), mode |-> "decimal", precision |-> None],
     [src |-> Text(Call(Name("sqrt"), <<Num(2)>>, <<>>)), mode |-> "decimal",
      precision |-> Prec(5)],
     [src |-> Text(DivZero), mode |-> "decimal", precision |-> None],
     [src |-> Malformed, mode |-> "hex", precision |-> Prec(0)],
     [src |-> Text(DivZero), mode |-> "decimal", precision |-> Prec(0)]}

InitWith(u) ==
    /\ pc = "idle"
    /\ universe = u
    /\ expr = NoText
    /\ mode = ""
    /\ precision = None
    /\ outcome = NoOutcome
    /\ log = <<>>
    /\ getcontext_prec = ContextPrec
    /\ hist = <<>>
    /\ registry = Registry
    /\ thread = [t \in Threads |-> NotCalling]
    /\ context = [t \in Threads |-> DefaultContext]

Init == InitWith("full")

HistInit == InitWith("probe")

\* one call eval_expr(src, m, p), from entry to return or raise
eval_expr(src, m, p) ==
    /\ pc = "idle"
    /\ universe = "probe" => Len(hist) < MaxCalls
    /\ pc' = "returned"
    /\ expr' = src
    /\ mode' = m
    /\ precision' = p
    /\ \E z \in {eval_expr_result(src, m, p, getcontext_prec)} :
          /\ outcome' = Result(z)
          /\ log' = z.log
          /\ hist' =
                IF universe = "probe"
                THEN Append(hist, [src |-> src, mode |-> m, precision |-> p,
                                   outcome |-> Result(z)])
                ELSE hist
    /\ getcontext_prec' =
          IF m \in {"float", "decimal", "fraction"}
          THEN ctx_setup(m, p, getcontext_prec).glob
          ELSE getcontext_prec
    /\ UNCHANGED <<universe, registry, thread, context>>

\* the caller is done with the result; the tree of the call is gone
discard ==
    /\ pc = "returned"
    /\ pc' = "idle"
    /\ expr' = NoText
    /\ mode' = ""
    /\ precision' = None
    /\ outcome' = NoOutcome
    /\ log' = <<>>
    /\ UNCHANGED <<universe, getcontext_prec, hist, registry, thread, context>>

Next ==
    \/ pc = "idle" /\ \E i \in Inputs(universe) : eval_expr(i.src, i.mode, i.precision)
    \/ discard

Spec == Init /\ [][Next]_vars

HistSpec == HistInit /\ [][Next]_vars

----------------------------------------------------------------------------
(* Threads that call eval_expr concurrently.  A call is split where it     *)
(* touches state outside its frame: lines 82-90 read getcontext() and      *)
(* build the private ctx; the parse and _eval of lines 219-227 read the    *)
(* tables and run Decimal arithmetic under getcontext(), which in Python   *)
(* is the context of the calling thread.                                   *)

getcontext(t) == context[t]

\* lines 82-90 of a call by thread t: the mode check and the context set-up
eval_expr_enter(t, src, m, p) ==
    LET setup == ctx_setup(m, p, getcontext(t).prec)
        failed(r) == [NotCalling EXCEPT !.pc = "returned", !.src = src, !.mode = m,
                                        !.precision = p, !.outcome = r]
    IN  /\ thread[t].pc = "idle"
        /\ IF m \notin {"float", "decimal", "fraction"}
           THEN /\ thread' = [thread EXCEPT ![t] = failed(Raise("EvalError", "Unbekannter Modus"))]
                /\ UNCHANGED context
           ELSE /\ thread' =
                     [thread EXCEPT ![t] =
                        IF ~setup.ok
                        THEN failed(Raise("ValueError", "valid range for prec is [1, MAX_PREC]"))
                        ELSE [NotCalling EXCEPT !.pc = "entered", !.src = src, !.mode = m,
                                                !.precision = p, !.ctx = setup.ctx]]
                /\ context' = [context EXCEPT ![t].prec = setup.glob]
        /\ UNCHANGED <<pc, universe, expr, mode, precision, outcome, log,
                       getcontext_prec, hist, registry>>

\* lines 219-227 of the call thread t is in: parse, _eval, return or raise
eval_expr_run(t) ==
    /\ thread[t].pc = "entered"
    /\ \E evals \in {Evaluations(thread[t].src.tree, thread[t].mode, thread[t].ctx,
                                 getcontext(t).prec)} :
       \E e \in {IF ast_parse(thread[t].src).ok THEN evals[<<>>]
                 ELSE Logged(Raise("EvalError", "Syntaxfehler"), <<>>)} :
         \E sg \in {_eval_signals(thread[t].src.tree, e.log, thread[t].mode,
                                  getcontext(t).prec, evals)} :
            \E extra \in SUBSET sg.may :
                /\ thread' = [thread EXCEPT ![t].pc = "returned",
                                            ![t].outcome = Result(e),
                                            ![t].overlap = \E u \in Threads \ {t} :
                                                              thread[u].pc = "entered"]
                /\ context' = [context EXCEPT ![t].flags = @ \cup sg.must \cup extra]
    /\ UNCHANGED <<pc, universe, expr, mode, precision, outcome, log,
                   getcontext_prec, hist, registry>>

\* the caller on thread t takes the outcome; the frame of the call is gone
eval_expr_return(t) ==
    /\ thread[t].pc = "returned"
    /\ thread' = [thread EXCEPT ![t] = NotCalling]
    /\ UNCHANGED <<pc, universe, expr, mode, precision, outcome, log,
                   getcontext_prec, hist, registry, context>>

ThreadInit == InitWith("threads")

ThreadNext ==
    \/ \E t \in Threads : \E i \in ThreadInputs :
          eval_expr_enter(t, i.src, i.mode, i.precision)
    \/ \E t \in Threads : eval_expr_run(t)
    \/ \E t \in Threads : eval_expr_return(t)

ThreadSpec == ThreadInit /\ [][ThreadNext]_vars

----------------------------------------------------------------------------
(* Vocabulary of the properties *)

Modes == {"float", "decimal", "fraction"}

\* a call has returned or raised, and its arguments were in the documented ranges
Returned ==
    /\ pc = "returned"
    /\ mode \in Modes
    /\ ctx_setup(mode, precision, getcontext_prec).ok

Parsed == Returned /\ expr.syntax = "expression"

Tree == expr.tree

Ctx == ctx_setup(mode, precision, getcontext_prec).ctx

\* the evaluation of the subtree at position path, taken on its own
Alone(node, path) == _eval(node, path, mode, Ctx, getcontext_prec)

RECURSIVE NodeAt(_, _)
NodeAt(node, path) ==
    IF path = <<>> THEN node ELSE NodeAt(node.args[Head(path)], Tail(path))

IsPrefix(q, path) == Len(q) <= Len(path) /\ SubSeq(path, 1, Len(q)) = q

Visited(path) == \E k \in 1..Len(log) : log[k].ev = "visit" /\ log[k].at = path

BinaryArith == {"Add", "Sub", "Mult", "Div", "FloorDiv", "Mod", "Pow"}

RECURSIVE Whitelisted(_)
\* the tree is built only from numeric literals, bare identifiers, unary + and -,
\* the seven binary operators and calls of a bare name with positional arguments
Whitelisted(node) ==
    CASE node.k = "Constant" -> node.s \in {"int", "float"}
      [] node.k = "Name" -> TRUE
      [] node.k = "UnaryOp" -> node.s \in {"USub", "UAdd"} /\ Whitelisted(node.args[1])
      [] node.k = "BinOp" ->
            node.s \in BinaryArith /\ Whitelisted(node.args[1]) /\ Whitelisted(node.args[2])
      [] node.k = "Call" ->
            /\ node.f[1].k = "Name"
            /\ node.kws = <<>>
            /\ \A i \in 1..Len(node.args) : Whitelisted(node.args[i])
      [] OTHER -> FALSE

IsError(o) == ~o.ok

TaxonomyErrors == {"EvalError", "ZeroDivisionError", "DivisionByZero"}

----------------------------------------------------------------------------
(* C1: every input whose text is not an expression, or whose tree holds a   *)
(* construct outside the whitelist (a non-numeric or boolean constant, an   *)
(* attribute, an index, a collection, a comparison, a keyword argument...), *)
(* makes eval_expr raise; it never returns a value.                         *)
C1_StructuralRejection ==
    (Returned /\ (expr.syntax # "expression" \/ ~Whitelisted(Tree))) => IsError(outcome)

----------------------------------------------------------------------------
(* C2: only entries of OPS and _MATH_FUNCS are applied, and a Call whose    *)
(* callee is not a bare name or not a registered function raises EvalError  *)
(* before any of its arguments is visited and before anything is invoked.   *)
BadCallee(node) ==
    node.k = "Call" /\ (node.f[1].k # "Name" \/ node.f[1].s \notin _MATH_FUNCS)

C2_WhitelistOnlyInvocation ==
    Parsed =>
        /\ \A k \in 1..Len(log) :
                /\ log[k].ev = "apply" => log[k].what \in OPS
                /\ log[k].ev = "invoke" => log[k].what \in _MATH_FUNCS
        /\ \A q \in Paths(Tree) :
                (BadCallee(NodeAt(Tree, q)) /\ Visited(q)) =>
                    /\ outcome.exc = "EvalError"
                    /\ log[Len(log)] = Visit(q, NodeAt(Tree, q))
                    /\ \A k \in 1..Len(log) :
                            ~(IsPrefix(q, log[k].at) /\ log[k].at # q)

\* an unregistered call with an argument was reached after another node was evaluated
C2_Witness ==
    /\ Parsed
    /\ \E q \in Paths(Tree) :
            /\ q # <<>>
            /\ BadCallee(NodeAt(Tree, q))
            /\ Len(NodeAt(Tree, q).args) > 0
            /\ Visited(q)
    /\ \E k \in 1..Len(log) : log[k].ev = "visit" /\ log[k].what = "Constant"

----------------------------------------------------------------------------
(* C3: in every mode, a /, // or % whose right operand evaluates to zero    *)
(* raises ZeroDivisionError (or decimal.DivisionByZero), whatever the left  *)
(* operand, and never EvalError or another exception.                       *)
C3_DivisionByZeroMatchable ==
    (/\ Parsed
     /\ Tree.k = "BinOp"
     /\ Tree.s \in {"Div", "FloorDiv", "Mod"}
     /\ Alone(Tree.args[1], <<1>>).ok
     /\ Alone(Tree.args[2], <<2>>).ok
     /\ IsZero(Alone(Tree.args[2], <<2>>).v))
        => (IsError(outcome) /\ IsZeroDivisionError(outcome.exc))

----------------------------------------------------------------------------
(* C4: a call that does not return a value raises EvalError or the          *)
(* division-by-zero condition, and nothing else, for every expression, mode *)
(* and precision.                                                           *)
C4_ClosedErrorTaxonomy ==
    (pc = "returned" /\ IsError(outcome)) => outcome.exc \in TaxonomyErrors

----------------------------------------------------------------------------
(* Calls at the root of the tree whose arguments all evaluate *)

\* the root is a call of the registered function name
RootCall(name) ==
    /\ Parsed
    /\ Tree.k = "Call"
    /\ Tree.f[1].k = "Name"
    /\ Tree.f[1].s = name

ArgAlone(i) == Alone(Tree.args[i], <<i>>)

ArgsEvaluate == \A i \in 1..Len(Tree.args) : ArgAlone(i).ok

\* the value as a rational number, whatever its representation
SameNumber(v, q) == v.den # 0 /\ Car(v) = q

----------------------------------------------------------------------------
(* C5 as stated: in fraction mode a call whose arguments evaluate returns a *)
(* value only for abs, max, min and pow with an integral exponent; sin,     *)
(* cos, tan, log, ln, sqrt and pow with a non-integral exponent raise       *)
(* EvalError; pow(b, n) with an integral n returns the Fraction b**n.       *)
IntegralExponent == Len(Tree.args) = 2 /\ ArgAlone(2).v.den = 1

----------------------------------------------------------------------------
(* C6: in every mode max(a1..an) and min(a1..an), n >= 2, with arguments    *)
(* that evaluate, return one of the arguments: for max one that is >= all   *)
(* the others, for min one that is <= all the others.                       *)
C6_MaxMinCorrect ==
    \A name \in {"max", "min"} :
        (RootCall(name) /\ Len(Tree.args) >= 2 /\ ArgsEvaluate) =>
            /\ outcome.ok
            /\ \E i \in 1..Len(Tree.args) : SameNumber(outcome.v, Car(ArgAlone(i).v))
            /\ \A i \in 1..Len(Tree.args) :
                    IF name = "max"
                    THEN ~QLess(Car(outcome.v), Car(ArgAlone(i).v))
                    ELSE ~QLess(Car(ArgAlone(i).v), Car(outcome.v))

----------------------------------------------------------------------------
(* C7: a value eval_expr returns is a float in float mode, a Decimal in     *)
(* decimal mode and a Fraction in fraction mode.                            *)
ModeTag(m) ==
    CASE m = "float" -> "float" [] m = "decimal" -> "Decimal" [] m = "fraction" -> "Fraction"

C7_ResultRepresentation ==
    (Parsed /\ Whitelisted(Tree) /\ outcome.ok) => outcome.v.tag = ModeTag(mode)

----------------------------------------------------------------------------
(* C8: in decimal mode with precision p (28 when omitted) a binary          *)
(* operator, pow or sqrt applied to numeric literals returns a Decimal of   *)
(* at most p significant digits.                                            *)
NumericLiteral(node) == node.k = "Constant" /\ node.s \in {"int", "float"}

PrecisionSensitive ==
    /\ \A i \in 1..Len(Tree.args) : NumericLiteral(Tree.args[i])
    /\ \/ Tree.k = "BinOp" /\ Tree.s \in BinaryArith
       \/ Tree.k = "Call" /\ Tree.kws = <<>> /\ Tree.f[1] = Name("pow") /\ Len(Tree.args) = 2
       \/ Tree.k = "Call" /\ Tree.kws = <<>> /\ Tree.f[1] = Name("sqrt") /\ Len(Tree.args) = 1

C8_DecimalPrecisionHonoured ==
    (Parsed /\ mode = "decimal" /\ PrecisionSensitive /\ outcome.ok /\ outcome.v.den # 0)
        => Digits(outcome.v) <= Ctx

----------------------------------------------------------------------------
(* C9: the operands of a BinOp and the arguments of a Call are evaluated    *)
(* left to right; once a subtree raises, no later sibling is visited and    *)
(* the error that leaves eval_expr is the error of that first subtree.      *)
Under(q, k) == IsPrefix(q, log[k].at)

\* the node at q evaluates its children: a BinOp with a supported operator or a
\* Call of a registered bare name
EvaluatesChildren(node) ==
    \/ node.k = "BinOp" /\ node.s \in OPS
    \/ node.k = "Call" /\ ~BadCallee(node)

C9_LeftToRight ==
    Parsed =>
        \A q \in Paths(Tree) :
            (EvaluatesChildren(NodeAt(Tree, q)) /\ Visited(q)) =>
                LET node == NodeAt(Tree, q)
                    n == Len(node.args)
                    kid(i) == Alone(node.args[i], q \o <<i>>)
                IN  /\ \A i \in 1..n, j \in 1..n, a \in 1..Len(log), b \in 1..Len(log) :
                            (i < j /\ Under(q \o <<i>>, a) /\ Under(q \o <<j>>, b)) => a < b
                    /\ \A i \in 1..n :
                            ((\A h \in 1..(i - 1) : kid(h).ok) /\ ~kid(i).ok) =>
                                /\ outcome = Result(kid(i))
                                /\ \A j \in (i + 1)..n : ~Visited(q \o <<j>>)

\* the left operand raised EvalError and the right operand, on its own, divides by zero
C9_Witness ==
    /\ Parsed
    /\ Tree.k = "BinOp"
    /\ Tree.s \in OPS
    /\ Alone(Tree.args[1], <<1>>).exc = "EvalError"
    /\ IsZeroDivisionError(Alone(Tree.args[2], <<2>>).exc)
    /\ outcome.exc = "EvalError"

----------------------------------------------------------------------------
(* C10: two calls of eval_expr with the same expression, mode and           *)
(* precision produce the same outcome, whatever calls were made between     *)
(* and before them.                                                         *)
SameInput(a, b) == a.src = b.src /\ a.mode = b.mode /\ a.precision = b.precision

C10_Deterministic ==
    \A i \in 1..Len(hist), j \in 1..Len(hist) :
        SameInput(hist[i], hist[j]) => hist[i].outcome = hist[j].outcome

\* a decimal call without precision was repeated after a call with another precision
C10_Witness ==
    /\ Len(hist) >= 3
    /\ SameInput(hist[1], hist[3])
    /\ hist[1].mode = "decimal"
    /\ hist[1].precision = None
    /\ hist[1].outcome.ok
    /\ hist[2].mode = "decimal"
    /\ hist[2].precision # None
    /\ hist[2].outcome.ok

----------------------------------------------------------------------------
(* C11 *)

\* the outcome of the call c when it is the only call of a fresh process
RunAlone(c) == Result(eval_expr_result(c.src, c.mode, c.precision, ContextPrec))

----------------------------------------------------------------------------
(* C12 *)

\* how often the operator of the node at position path was applied
Applications(path) ==
    Cardinality({k \in 1..Len(log) : log[k].ev = "apply" /\ log[k].at = path})

\* v in the canonical representation of the mode of the call
Canonical(v) ==
    IF mode = "decimal" THEN _to_decimal(v, Ctx, getcontext_prec)
    ELSE IF mode = "fraction" THEN _to_fraction(v)
    ELSE Ret(to_float(v))

\* C12: for every BinOp whose operator was applied, the first application is
\* on the two operand values as evaluated; if it succeeds or fails with a
\* division by zero that is the result of the node and the operator was applied
\* once; a second application happens only after another failure, is made on
\* the operands coerced to the representation of the mode, and if no value
\* comes of it the call raises EvalError; there is never a third application.
C12_TryNativeThenRetryOnce ==
    Parsed =>
        \A p \in Paths(Tree) :
            LET nd == NodeAt(Tree, p)
                n == Applications(p)
                L == Alone(nd.args[1], p \o <<1>>).v
                R == Alone(nd.args[2], p \o <<2>>).v
                first == OPS_binary(nd.s, L, R, getcontext_prec)
                out == Alone(nd, p)
            IN  (nd.k = "BinOp" /\ n > 0) =>
                    /\ n <= 2
                    /\ n = 2 => ~first.ok /\ ~IsZeroDivisionError(first.exc)
                    /\ first.ok => n = 1 /\ Result(out) = first
                    /\ (~first.ok /\ IsZeroDivisionError(first.exc)) =>
                          n = 1 /\ Result(out) = first /\ outcome = first
                    /\ (~first.ok /\ ~IsZeroDivisionError(first.exc)) =>
                          \/ /\ n = 2 /\ out.ok
                             /\ Result(out) = OPS_binary(nd.s, Canonical(L).v, Canonical(R).v,
                                                         getcontext_prec)
                          \/ ~out.ok /\ out.exc = "EvalError" /\ outcome.exc = "EvalError"

====
